---- MODULE Spec2Model ----
(***************************************************************************)
(* RouteRover: the schedule import engine (POST /api/schedule/process),    *)
(* the in-memory storage it writes to, and header inference.               *)
(*                                                                         *)
(* The handler is an async function: every `await` is a point where the    *)
(* handler of another request may run, so each action below is the code    *)
(* from one await to the next.                                             *)
(***************************************************************************)
EXTENDS Integers, Sequences, FiniteSets, TLC

VARIABLES
    tz,               \* the server process's time zone, hours east of UTC
    scheduleEntries,  \* MemStorage.scheduleEntries, in insertion order
    processedFiles,   \* MemStorage.processedFiles, one record per key
    errorLogs,        \* MemStorage.errorLogs, in insertion order
    apiUsage,         \* MemStorage.apiUsage: call count per user
    nextId,           \* the ids handed out so far (randomUUID is fresh)
    req,              \* per request slot: the handler's locals and position
    nImports,         \* requests started so far
    imported,         \* history: outcomes of the requests that have returned
    hdr               \* header inference: the columns given and the mappings

vars == <<tz, scheduleEntries, processedFiles, errorLogs, apiUsage, nextId,
          req, nImports, imported, hdr>>

----------------------------------------------------------------------------
(* Bounds *)

MaxImports == 2

Slots == {1, 2}

TimeZones == {0, -5}

----------------------------------------------------------------------------
(* Values *)

\* null / undefined of a numeric field, of a string field, of a flag
NullNum == -1
NullStr == "null"

\* x || y on strings: the empty string and null are falsy
OrElse(x, y) == IF x = "" \/ x = NullStr THEN y ELSE x

Truthy(x) == x # "" /\ x # NullStr

----------------------------------------------------------------------------
(* Dates.  A Date is a number of hours since 1970-01-01T00:00Z; a calendar  *)
(* day is a number of days since 1970-01-01.                                *)

NaNDate == -99999999

\* 1970 to 2023: 53 years, 13 of them leap; 1900 to 1970: 70 years, 17 leap
Day20230101 == 53 * 365 + 13
Day19000101 == 0 - (70 * 365 + 17)
HoursPerDay == 24
MsPerHour == 3600000

\* a date cell of a row: a string in a local-time format ("1/1/2023"),
\* a date-only ISO string ("2023-01-01"), a number, or text that is no date
MDY(d) == [k |-> "mdy", v |-> d]
ISO(d) == [k |-> "iso", v |-> d]
NUM(n) == [k |-> "num", v |-> n]
BAD == [k |-> "bad", v |-> 0]

\* new Date(y, m, d): local midnight of a calendar day
LocalMidnight(day, z) == day * HoursPerDay - z

\* a variant that takes text that is no date for the epoch
NewDateLenient(cell, z) ==
    CASE cell.k = "mdy" -> LocalMidnight(cell.v, z)
      [] cell.k = "iso" -> cell.v * HoursPerDay
      [] cell.k = "num" -> cell.v \div MsPerHour
      [] OTHER -> 0

\* new Date(cell)
NewDate(cell, z) ==
    CASE cell.k = "mdy" -> LocalMidnight(cell.v, z)
      [] cell.k = "iso" -> cell.v * HoursPerDay
      [] cell.k = "num" -> cell.v \div MsPerHour
      [] OTHER -> NaNDate

\* date.toISOString().split('T')[0]: the UTC calendar day
ISODateStr(t) == t \div HoursPerDay

\* date.toDateString(): the local calendar day
ToDateString(t, z) == (t + z) \div HoursPerDay

\* new Date(1900, 0, rawDate - 1)
ExcelDate(n, z) == LocalMidnight(Day19000101 + (n - 1) - 1, z)

\* the grouping's date of a row (typeof rawDate === 'number' or not)
ParsedDate(cell, z) ==
    IF cell.k = "num" THEN ExcelDate(cell.v, z) ELSE NewDate(cell, z)

----------------------------------------------------------------------------
(* Text.  A string is used as a value; where the code looks inside a string *)
(* (toLowerCase, includes) the string's characters are taken from Chars.    *)

Chars ==
    "" :> <<>> @@
    "Hotel Stay" :> <<"H", "o", "t", "e", "l", " ", "S", "t", "a", "y">> @@
    "Client visit" :> <<"C", "l", "i", "e", "n", "t", " ", "v", "i", "s", "i", "t">> @@
    "Overnight at client site" :> <<"O", "v", "e", "r", "n", "i", "g", "h", "t", " ", "a", "t", " ", "c", "l", "i", "e", "n", "t", " ", "s", "i", "t", "e">> @@
    "Motel" :> <<"M", "o", "t", "e", "l">> @@
    "Mountain Lodge" :> <<"M", "o", "u", "n", "t", "a", "i", "n", " ", "L", "o", "d", "g", "e">> @@
    "Trip Date" :> <<"T", "r", "i", "p", " ", "D", "a", "t", "e">> @@
    "Starting Location" :> <<"S", "t", "a", "r", "t", "i", "n", "g", " ", "L", "o", "c", "a", "t", "i", "o", "n">> @@
    "Destination" :> <<"D", "e", "s", "t", "i", "n", "a", "t", "i", "o", "n">> @@
    "Comments" :> <<"C", "o", "m", "m", "e", "n", "t", "s">> @@
    "Date" :> <<"D", "a", "t", "e">> @@
    "Start Address" :> <<"S", "t", "a", "r", "t", " ", "A", "d", "d", "r", "e", "s", "s">> @@
    "End Address" :> <<"E", "n", "d", " ", "A", "d", "d", "r", "e", "s", "s">> @@
    "Address" :> <<"A", "d", "d", "r", "e", "s", "s">> @@
    "Stop Address" :> <<"S", "t", "o", "p", " ", "A", "d", "d", "r", "e", "s", "s">> @@
    "Notes" :> <<"N", "o", "t", "e", "s">> @@
    "From" :> <<"F", "r", "o", "m">> @@
    "Origin" :> <<"O", "r", "i", "g", "i", "n">> @@
    "Departure Date" :> <<"D", "e", "p", "a", "r", "t", "u", "r", "e", " ", "D", "a", "t", "e">> @@
    "Destination Address" :> <<"D", "e", "s", "t", "i", "n", "a", "t", "i", "o", "n", " ", "A", "d", "d", "r", "e", "s", "s">> @@
    "Address Notes" :> <<"A", "d", "d", "r", "e", "s", "s", " ", "N", "o", "t", "e", "s">> @@
    \* the keywords the code searches for
    "hotel" :> <<"h", "o", "t", "e", "l">> @@
    "motel" :> <<"m", "o", "t", "e", "l">> @@
    "stay" :> <<"s", "t", "a", "y">> @@
    "lodging" :> <<"l", "o", "d", "g", "i", "n", "g">> @@
    "inn" :> <<"i", "n", "n">> @@
    "lodge" :> <<"l", "o", "d", "g", "e">> @@
    "resort" :> <<"r", "e", "s", "o", "r", "t">> @@
    "overnight" :> <<"o", "v", "e", "r", "n", "i", "g", "h", "t">> @@
    "accommodation" :> <<"a", "c", "c", "o", "m", "m", "o", "d", "a", "t", "i", "o", "n">> @@
    "date" :> <<"d", "a", "t", "e">> @@
    "day" :> <<"d", "a", "y">> @@
    "start" :> <<"s", "t", "a", "r", "t">> @@
    "address" :> <<"a", "d", "d", "r", "e", "s", "s">> @@
    "location" :> <<"l", "o", "c", "a", "t", "i", "o", "n">> @@
    "from" :> <<"f", "r", "o", "m">> @@
    "origin" :> <<"o", "r", "i", "g", "i", "n">> @@
    "departure" :> <<"d", "e", "p", "a", "r", "t", "u", "r", "e">> @@
    "end" :> <<"e", "n", "d">> @@
    "to" :> <<"t", "o">> @@
    "destination" :> <<"d", "e", "s", "t", "i", "n", "a", "t", "i", "o", "n">> @@
    "arrival" :> <<"a", "r", "r", "i", "v", "a", "l">> @@
    "note" :> <<"n", "o", "t", "e">> @@
    "comment" :> <<"c", "o", "m", "m", "e", "n", "t">> @@
    "description" :> <<"d", "e", "s", "c", "r", "i", "p", "t", "i", "o", "n">>

UpperToLower ==
    "A" :> "a" @@ "C" :> "c" @@ "D" :> "d" @@ "E" :> "e" @@ "F" :> "f" @@ "H" :> "h" @@ "L" :> "l" @@ "M" :> "m" @@ "N" :> "n" @@ "O" :> "o" @@ "S" :> "s" @@ "T" :> "t"

\* String.prototype.toLowerCase
ToLowerCase(s) ==
    [i \in 1..Len(s) |-> IF s[i] \in DOMAIN UpperToLower THEN UpperToLower[s[i]] ELSE s[i]]

\* String.prototype.includes
Includes(s, sub) ==
    \E i \in 0..(Len(s) - Len(sub)) : SubSeq(s, i + 1, i + Len(sub)) = sub

\* s.includes(keyword), on the characters
Has(s, kw) == Includes(s, Chars[kw])

----------------------------------------------------------------------------
(* Header inference *)

NoMapping == [date |-> NullStr, startAddress |-> NullStr,
              endAddress |-> NullStr, notes |-> NullStr]

IsDateHeader(l) == Has(l, "date") \/ Has(l, "day")

IsStartHeader(l) ==
    \/ (Has(l, "start") /\ (Has(l, "address") \/ Has(l, "location") \/ Has(l, "from")))
    \/ Has(l, "origin")
    \/ Has(l, "departure")
    \/ (Has(l, "from") /\ (Has(l, "address") \/ Has(l, "location")))
    \/ l = Chars["start"]
    \/ l = Chars["from"]

IsEndHeader(l) ==
    \/ (Has(l, "end") /\ (Has(l, "address") \/ Has(l, "location") \/ Has(l, "to")))
    \/ Has(l, "destination")
    \/ Has(l, "arrival")
    \/ (Has(l, "to") /\ (Has(l, "address") \/ Has(l, "location")))
    \/ l = Chars["end"]
    \/ l = Chars["to"]
    \/ l = Chars["destination"]

IsGenericAddressHeader(l) == Has(l, "address") \/ Has(l, "location")

IsNotesHeader(l) == Has(l, "note") \/ Has(l, "comment") \/ Has(l, "description")

\* a variant that keeps the first column of a field
HeaderStepKeepFirst(mapping, header) ==
    LET l == ToLowerCase(Chars[header]) IN
    CASE IsDateHeader(l) ->
            IF Truthy(mapping.date) THEN mapping ELSE [mapping EXCEPT !.date = header]
      [] IsStartHeader(l) ->
            IF Truthy(mapping.startAddress) THEN mapping
            ELSE [mapping EXCEPT !.startAddress = header]
      [] IsEndHeader(l) ->
            IF Truthy(mapping.endAddress) THEN mapping
            ELSE [mapping EXCEPT !.endAddress = header]
      [] ~Truthy(mapping.startAddress) /\ IsGenericAddressHeader(l) ->
            [mapping EXCEPT !.startAddress = header]
      [] IsNotesHeader(l) ->
            IF Truthy(mapping.notes) THEN mapping ELSE [mapping EXCEPT !.notes = header]
      [] OTHER -> mapping

\* a variant that tries the address rules before the date rule
HeaderStepAddressFirst(mapping, header) ==
    LET l == ToLowerCase(Chars[header]) IN
    CASE IsStartHeader(l) -> [mapping EXCEPT !.startAddress = header]
      [] IsEndHeader(l) -> [mapping EXCEPT !.endAddress = header]
      [] ~Truthy(mapping.startAddress) /\ IsGenericAddressHeader(l) ->
            [mapping EXCEPT !.startAddress = header]
      [] IsDateHeader(l) -> [mapping EXCEPT !.date = header]
      [] IsNotesHeader(l) -> [mapping EXCEPT !.notes = header]
      [] OTHER -> mapping

\* the body of headers.forEach in the server's detectHeaders
HeaderStep(mapping, header) ==
    LET l == ToLowerCase(Chars[header]) IN
    CASE IsDateHeader(l) -> [mapping EXCEPT !.date = header]
      [] IsStartHeader(l) -> [mapping EXCEPT !.startAddress = header]
      [] IsEndHeader(l) -> [mapping EXCEPT !.endAddress = header]
      [] ~Truthy(mapping.startAddress) /\ IsGenericAddressHeader(l) ->
            [mapping EXCEPT !.startAddress = header]
      [] IsNotesHeader(l) -> [mapping EXCEPT !.notes = header]
      [] OTHER -> mapping

RECURSIVE HeadersForEach(_, _)
HeadersForEach(mapping, headers) ==
    IF headers = <<>> THEN mapping
    ELSE HeadersForEach(HeaderStep(mapping, Head(headers)), Tail(headers))

\* detectHeaders(data), given Object.keys(data[0]) (no keys for empty data)
detectHeaders(headers) == HeadersForEach(NoMapping, headers)

IsClientStartHeader(l) ==
    Has(l, "start") /\ (Has(l, "address") \/ Has(l, "location") \/ Has(l, "from"))

IsClientEndHeader(l) ==
    Has(l, "end") /\ (Has(l, "address") \/ Has(l, "location") \/ Has(l, "to"))

\* the body of headers.forEach in the client's detectHeaders
ClientHeaderStep(mapping, header) ==
    LET l == ToLowerCase(Chars[header]) IN
    CASE IsDateHeader(l) -> [mapping EXCEPT !.date = header]
      [] IsClientStartHeader(l) -> [mapping EXCEPT !.startAddress = header]
      [] IsClientEndHeader(l) -> [mapping EXCEPT !.endAddress = header]
      [] IsNotesHeader(l) -> [mapping EXCEPT !.notes = header]
      [] OTHER -> mapping

RECURSIVE ClientHeadersForEach(_, _)
ClientHeadersForEach(mapping, headers) ==
    IF headers = <<>> THEN mapping
    ELSE ClientHeadersForEach(ClientHeaderStep(mapping, Head(headers)), Tail(headers))

clientDetectHeaders(headers) == ClientHeadersForEach(NoMapping, headers)

\* detectHotelStay (server)
detectHotelStay(notes) ==
    IF ~Truthy(notes) THEN FALSE
    ELSE LET lowerNotes == ToLowerCase(Chars[notes]) IN
         \/ Has(lowerNotes, "hotel")
         \/ Has(lowerNotes, "motel")
         \/ Has(lowerNotes, "stay")
         \/ Has(lowerNotes, "lodging")

\* hotelKeywords of the client's detectHotelStay
hotelKeywords == <<"hotel", "motel", "inn", "lodge", "resort", "stay", "overnight",
                   "lodging", "accommodation">>

\* detectHotelStay (client)
clientDetectHotelStay(notes) ==
    IF ~Truthy(notes) THEN FALSE
    ELSE LET lowerNotes == ToLowerCase(Chars[notes]) IN
         \E k \in 1..Len(hotelKeywords) : Has(lowerNotes, hotelKeywords[k])

----------------------------------------------------------------------------
(* Users and their settings (storage.getUserSettings) *)

Users == {"u1", "u2", "u3", "u4"}

appSettings ==
    "u1" :> [googleApiKey |-> "key1", defaultStartAddress |-> "Home",
             defaultEndAddress |-> NullStr] @@
    "u2" :> [googleApiKey |-> "key2", defaultStartAddress |-> "Home",
             defaultEndAddress |-> "Depot"] @@
    "u3" :> [googleApiKey |-> "key3", defaultStartAddress |-> NullStr,
             defaultEndAddress |-> NullStr] @@
    "u4" :> [googleApiKey |-> NullStr, defaultStartAddress |-> "Home",
             defaultEndAddress |-> NullStr]

getUserSettings(userId) == appSettings[userId]

----------------------------------------------------------------------------
(* Request bodies: { data, headerMapping, mileageRate, fileHash, fileName } *)

Row(date, address, notes) == [Date |-> date, Address |-> address, Notes |-> notes]

TheMapping == [date |-> "Date", startAddress |-> "Address", notes |-> "Notes"]

D1 == Day20230101
D2 == Day20230101 + 1
D3 == Day20230101 + 2

\* three days: a hotel day, a day that returns, a day whose only stop is home
File1 == << Row(MDY(D1), "A", "Client visit"),
            Row(MDY(D1), "Inn", "Hotel Stay"),
            Row(MDY(D2), "B", ""),
            Row(MDY(D3), "Home", "") >>

\* another file with a row of the first day
File2 == << Row(MDY(D1), "C", "") >>

\* the first day again, once as a spreadsheet serial and once as a string,
\* with two hotel stops
File3 == << Row(NUM(44927), "C", "Hotel Stay"),
            Row(MDY(D1), "A", "Motel") >>

\* a row with no date, a hotel row with no address, then a day with two stops
File4 == << Row(BAD, "A", ""),
            Row(MDY(D2), "", "Hotel Stay"),
            Row(MDY(D3), "B", ""),
            Row(MDY(D3), "", "Mountain Lodge") >>

\* a date-only ISO string, and the same day as a spreadsheet serial
File5 == << Row(ISO(D2), "A", "Overnight at client site"),
            Row(NUM(44928), "B", "") >>

\* mileageRate 0 stands for an absent rate; rates are in 1/1000 dollar per mile
Requests == {
    [data |-> File1, headerMapping |-> TheMapping, mileageRate |-> 0,
     fileHash |-> "h1", fileName |-> "one.csv"],
    [data |-> File2, headerMapping |-> TheMapping, mileageRate |-> 500,
     fileHash |-> "h2", fileName |-> "two.csv"],
    [data |-> File3, headerMapping |-> TheMapping, mileageRate |-> 0,
     fileHash |-> "h3", fileName |-> NullStr],
    [data |-> File4, headerMapping |-> TheMapping, mileageRate |-> 0,
     fileHash |-> NullStr, fileName |-> NullStr],
    [data |-> File5, headerMapping |-> TheMapping, mileageRate |-> 0,
     fileHash |-> "h5", fileName |-> "five.csv"] }

DefaultRate == 655

----------------------------------------------------------------------------
(* The routing provider and calculateRoute *)

\* where the provider places each address, in km along a road
Position ==
    "Home" :> 0 @@ "Depot" :> 8 @@ "A" :> 16 @@ "B" :> 40 @@ "C" :> 72 @@ "Inn" :> 100

Abs(x) == IF x < 0 THEN 0 - x ELSE x

\* leg.distance.value of the provider's answer, in meters
LegMeters(from, to) == Abs(Position[from] - Position[to]) * 1000

\* leg.distance.value / 1609.34, in 1/100 mile
MetersToMiles(m) == (m * 10000) \div 160934

\* what one call can end in: an answer, a status other than OK, a failed fetch;
\* the provider has no route for an address it does not know
Outcomes(from, to) ==
    IF from \in DOMAIN Position /\ to \in DOMAIN Position
    THEN {"OK", "NOT_OK", "FETCH_FAILED"}
    ELSE {"NOT_OK", "FETCH_FAILED"}

----------------------------------------------------------------------------
(* MemStorage *)

Flag(b) == IF b THEN "true" ELSE "false"

\* no entry (undefined); also the shape of an entry
NoEntry ==
    [id |-> 0, userId |-> NullStr, date |-> NaNDate, startAddress |-> NullStr,
     endAddress |-> NullStr, notes |-> <<>>, calculatedDistance |-> NullNum,
     calculatedAmount |-> NullNum, isHotelStay |-> NullStr,
     processingStatus |-> NullStr, errorMessage |-> NullStr, originalData |-> <<>>]

\* a variant that returns the entries of every user
getScheduleEntriesOfAll(entries, userId) == entries

\* storage.getScheduleEntries(userId)
getScheduleEntries(entries, userId) ==
    SelectSeq(entries, LAMBDA e : e.userId = userId)

\* the entry storage.createScheduleEntry(insertEntry) builds, under a new id
NewScheduleEntry(id, insertEntry) ==
    [id |-> id,
     userId |-> insertEntry.userId,
     date |-> insertEntry.date,
     startAddress |-> insertEntry.startAddress,
     endAddress |-> insertEntry.endAddress,
     notes |-> insertEntry.notes,
     calculatedDistance |-> insertEntry.calculatedDistance,
     calculatedAmount |-> insertEntry.calculatedAmount,
     isHotelStay |-> insertEntry.isHotelStay,
     processingStatus |-> insertEntry.processingStatus,
     errorMessage |-> insertEntry.errorMessage,
     originalData |-> insertEntry.originalData]

\* storage.createScheduleEntry: this.scheduleEntries.set(id, entry)
createScheduleEntry(entries, id, insertEntry) ==
    Append(entries, NewScheduleEntry(id, insertEntry))

\* { ...existing, ...updates }
Spread(existing, updates) ==
    [f \in DOMAIN existing |-> IF f \in DOMAIN updates THEN updates[f] ELSE existing[f]]

HasId(entries, id) == \E i \in 1..Len(entries) : entries[i].id = id

\* storage.updateScheduleEntry(id, updates): the map after the call
updateScheduleEntry(entries, id, updates) ==
    [i \in 1..Len(entries) |->
        IF entries[i].id = id THEN Spread(entries[i], updates) ELSE entries[i]]

\* storage.updateScheduleEntry(id, updates): the value returned
UpdatedEntry(entries, id, updates) ==
    IF HasId(entries, id)
    THEN Spread(entries[CHOOSE i \in 1..Len(entries) : entries[i].id = id], updates)
    ELSE NoEntry

\* storage.getProcessedFileHash(userId, fileHash): the records under the key
getProcessedFileHash(files, userId, fileHash) ==
    {f \in files : f.userId = userId /\ f.fileHash = fileHash}

\* storage.createProcessedFile: this.processedFiles.set(key, file)
createProcessedFile(files, id, insertFile) ==
    (files \ getProcessedFileHash(files, insertFile.userId, insertFile.fileHash))
        \cup {[id |-> id, userId |-> insertFile.userId, fileHash |-> insertFile.fileHash,
               fileName |-> insertFile.fileName, recordCount |-> insertFile.recordCount]}

\* storage.createErrorLog
createErrorLog(logs, id, insertLog) ==
    Append(logs, [id |-> id, userId |-> insertLog.userId, errorType |-> insertLog.errorType,
                  errorMessage |-> insertLog.errorMessage, context |-> insertLog.context])

\* storage.trackApiCall, for the one provider and the current month
trackApiCall(usage, userId) == [usage EXCEPT ![userId] = @ + 1]

----------------------------------------------------------------------------
(* POST /api/schedule/process: the handler's locals *)

\* Map.set / Map.get(key).push(row) on a Map kept as its entries in order
\* (m is evaluated once and then used as map)
MapPush(m, key, row) ==
    LET Push(map) ==
          IF \E i \in 1..Len(map) : map[i].key = key
          THEN [i \in 1..Len(map) |->
                   IF map[i].key = key THEN [map[i] EXCEPT !.rows = Append(@, row)]
                   ELSE map[i]]
          ELSE Append(map, [key |-> key, rows |-> <<row>>])
    IN CHOOSE pushed \in {Push(map) : map \in {m}} : TRUE

\* dateRanges: the rows with a valid date, by ISO date
RECURSIVE DateRanges(_, _, _, _)
DateRanges(data, headerMapping, z, acc) ==
    IF data = <<>> THEN acc
    ELSE LET row == Head(data)
             date == NewDate(row[headerMapping.date], z)
         IN DateRanges(Tail(data), headerMapping, z,
                IF date # NaNDate THEN MapPush(acc, ISODateStr(date), row) ELSE acc)

\* existingDates
ExistingDates(existingSchedule) ==
    {ISODateStr(existingSchedule[i].date) : i \in 1..Len(existingSchedule)}

\* filteredDateRanges
FilteredDateRanges(dateRanges, existingDates) ==
    SelectSeq(dateRanges, LAMBDA p : p.key \notin existingDates)

\* a variant that counts the dates instead of the rows
CountDates(m) == Len(m)

\* newDataCount
RECURSIVE CountRows(_)
CountRows(m) == IF m = <<>> THEN 0 ELSE Len(Head(m).rows) + CountRows(Tail(m))

RECURSIVE Flatten(_)
Flatten(m) == IF m = <<>> THEN <<>> ELSE Head(m).rows \o Flatten(Tail(m))

\* entriesByDate: the rows of the filtered dates, by toDateString
RECURSIVE EntriesByDate(_, _, _, _)
EntriesByDate(rows, headerMapping, z, acc) ==
    IF rows = <<>> THEN acc
    ELSE LET row == Head(rows)
             date == ToDateString(ParsedDate(row[headerMapping.date], z), z)
         IN EntriesByDate(Tail(rows), headerMapping, z, MapPush(acc, date, row))

\* the locals of a request that has not arrived
IdleReq ==
    [pc |-> "idle", userId |-> NullStr,
     body |-> [data |-> <<>>, headerMapping |-> TheMapping, mileageRate |-> 0,
               fileHash |-> NullStr, fileName |-> NullStr],
     apiKey |-> NullStr, defaultStartAddress |-> NullStr, defaultEndAddress |-> NullStr,
     newDataCount |-> 0, newDates |-> 0, entriesByDate |-> <<>>,
     dayIdx |-> 0, results |-> <<>>, previousHotelAddress |-> NullStr,
     dayStartAddress |-> NullStr, dayEndAddress |-> NullStr, totalDayDistance |-> 0,
     hasHotelStay |-> FALSE, hotelAddress |-> NullStr,
     locIdx |-> 0, currentLocation |-> NullStr,
     calculatedAmount |-> 0, existingEntry |-> NoEntry, error |-> NullStr,
     saveIdx |-> 0, status |-> 0, response |-> [message |-> NullStr],
     \* history: the entries when the request arrived, the provider calls issued,
     \* the entry writes made
     before |-> <<>>, calls |-> <<>>, writes |-> 0]

\* the day in hand and its rows
DateString(l) == l.entriesByDate[l.dayIdx].key
DayEntries(l) == l.entriesByDate[l.dayIdx].rows

\* locations = dayEntries.map(...)
Locations(l) ==
    LET hm == l.body.headerMapping IN
    [i \in 1..Len(DayEntries(l)) |->
        [address |-> DayEntries(l)[i][hm.startAddress],
         notes |-> OrElse(DayEntries(l)[i][hm.notes], "")]]

\* the addresses of the day joined, and the hotel mark, as in the notes
RouteNotes(l) ==
    [i \in 1..Len(Locations(l)) |-> Locations(l)[i].address]
        \o << IF l.hasHotelStay THEN "(Hotel stay)" ELSE "" >>

\* a variant that requests a leg for every location with an address
NeedsLegAnyStop(l, i) == Truthy(Locations(l)[i].address)

\* a leg is requested for a location that differs from the current one
NeedsLeg(l, i) ==
    l.currentLocation # Locations(l)[i].address /\ Truthy(Locations(l)[i].address)

\* a variant that requests the leg back wherever the day's stops end
NeedsReturnLegAlways(l) == ~l.hasHotelStay /\ Truthy(l.dayEndAddress)

\* a leg back is requested
NeedsReturnLeg(l) ==
    l.currentLocation # l.dayEndAddress /\ ~l.hasHotelStay /\ Truthy(l.dayEndAddress)

\* mileageRate || 0.655
Rate(l) == IF l.body.mileageRate = 0 THEN DefaultRate ELSE l.body.mileageRate

\* the leg loop from location k up to its next await
Seek(l, k) ==
    LET need == {i \in k..Len(Locations(l)) : NeedsLeg(l, i)} IN
    IF need # {}
    THEN [l EXCEPT !.pc = "leg", !.locIdx = CHOOSE i \in need : \A j \in need : i <= j]
    ELSE IF NeedsReturnLeg(l)
    THEN [l EXCEPT !.pc = "return", !.locIdx = Len(Locations(l)) + 1]
    ELSE [l EXCEPT !.pc = "lookup", !.locIdx = Len(Locations(l)) + 1,
                   !.calculatedAmount = l.totalDayDistance * Rate(l)]

\* a variant that takes the last hotel stop of the day
LastHotel(locations) ==
    LET hotels == {i \in 1..Len(locations) : detectHotelStay(locations[i].notes)} IN
    IF hotels = {} THEN 0 ELSE CHOOSE i \in hotels : \A j \in hotels : i >= j

\* the first stop of the day whose notes tell of a hotel stay, or 0
FirstHotel(locations) ==
    LET hotels == {i \in 1..Len(locations) : detectHotelStay(locations[i].notes)} IN
    IF hotels = {} THEN 0 ELSE CHOOSE i \in hotels : \A j \in hotels : i <= j

\* a variant in which the path of every day leaves from the default start
EnterDayFromDefault(l, idx) ==
    LET Enter(d) ==
          LET h == FirstHotel(Locations(d))
              start == OrElse(d.previousHotelAddress, d.defaultStartAddress)
          IN [d EXCEPT
                !.dayStartAddress = start,
                !.dayEndAddress = IF h = 0 THEN d.defaultEndAddress
                                  ELSE Locations(d)[h].address,
                !.totalDayDistance = 0,
                !.hasHotelStay = (h # 0),
                !.hotelAddress = IF h = 0 THEN NullStr ELSE Locations(d)[h].address,
                !.currentLocation = d.defaultStartAddress,
                !.existingEntry = NoEntry,
                !.error = NullStr]
    IN CHOOSE s \in {Seek(e, 1) : e \in {Enter(d) : d \in {[l EXCEPT !.dayIdx = idx]}}} :
          TRUE

\* the start of the loop body for day idx, up to its first await
EnterDay(l, idx) ==
    LET Enter(d) ==
          LET h == FirstHotel(Locations(d))
              start == OrElse(d.previousHotelAddress, d.defaultStartAddress)
          IN [d EXCEPT
                !.dayStartAddress = start,
                !.dayEndAddress = IF h = 0 THEN d.defaultEndAddress
                                  ELSE Locations(d)[h].address,
                !.totalDayDistance = 0,
                !.hasHotelStay = (h # 0),
                !.hotelAddress = IF h = 0 THEN NullStr ELSE Locations(d)[h].address,
                !.currentLocation = start,
                !.existingEntry = NoEntry,
                !.error = NullStr]
    IN CHOOSE s \in {Seek(e, 1) : e \in {Enter(d) : d \in {[l EXCEPT !.dayIdx = idx]}}} :
          TRUE

\* after the last day: the file record if a hash and a name came, else the save loop
AfterDays(l) ==
    IF Truthy(l.body.fileHash) /\ Truthy(l.body.fileName)
    THEN [l EXCEPT !.pc = "record"]
    ELSE [l EXCEPT !.pc = "save", !.saveIdx = 1]

\* a variant that leaves the loop after its first day
NextDayLeavesLoop(l) == AfterDays(l)

\* a variant in which a failed day ends the loop
NextDayStopsOnError(l) ==
    IF l.dayIdx < Len(l.entriesByDate) /\ l.pc # "errlog"
    THEN EnterDay(l, l.dayIdx + 1) ELSE AfterDays(l)

\* the next iteration of the day loop, or what follows the loop
NextDay(l) ==
    IF l.dayIdx < Len(l.entriesByDate) THEN EnterDay(l, l.dayIdx + 1) ELSE AfterDays(l)

----------------------------------------------------------------------------
(* POST /api/schedule/process: the steps *)

Returned(l, status, response) ==
    [l EXCEPT !.pc = "done", !.status = status, !.response = response]

\* what the history keeps of a request that has returned
Summary(l) ==
    [userId |-> l.userId, body |-> l.body, status |-> l.status,
     failed |-> \E i \in 1..Len(l.calls) : l.calls[i].outcome # "OK"]

\* a request arrives in slot r
Begin(r, userId, body) ==
    /\ nImports < MaxImports
    /\ req[r].pc \in {"idle", "done"}
    /\ req' = [req EXCEPT ![r] = [IdleReq EXCEPT !.pc = "settings",
                                                 !.userId = userId, !.body = body,
                                                 !.before = scheduleEntries]]
    /\ imported' = IF req[r].pc = "done" THEN imported \cup {Summary(req[r])}
                   ELSE imported
    /\ nImports' = nImports + 1
    /\ UNCHANGED <<tz, scheduleEntries, processedFiles, errorLogs, apiUsage, nextId, hdr>>

\* a variant that checks the API key alone
CheckSettingsKeyOnly(l, apiKey, defaultStartAddress, defaultEndAddress) ==
    IF ~Truthy(apiKey)
    THEN Returned(l, 400, [message |-> "Google API key not configured"])
    ELSE [l EXCEPT !.pc = "gate", !.apiKey = apiKey,
                   !.defaultStartAddress = defaultStartAddress,
                   !.defaultEndAddress = defaultEndAddress]

\* the two configuration checks
CheckSettings(l, apiKey, defaultStartAddress, defaultEndAddress) ==
    IF ~Truthy(apiKey)
    THEN Returned(l, 400, [message |-> "Google API key not configured"])
    ELSE IF ~Truthy(defaultStartAddress)
    THEN Returned(l, 400,
             [message |-> "Default start address not configured in settings"])
    ELSE [l EXCEPT !.pc = "gate", !.apiKey = apiKey,
                   !.defaultStartAddress = defaultStartAddress,
                   !.defaultEndAddress = defaultEndAddress]

\* the settings are read and checked
GetSettings(r) ==
    LET l == req[r]
        userSettings == getUserSettings(l.userId)
        apiKey == userSettings.googleApiKey
        defaultStartAddress == userSettings.defaultStartAddress
        defaultEndAddress == OrElse(userSettings.defaultEndAddress, defaultStartAddress)
    IN
    /\ l.pc = "settings"
    /\ req' = [req EXCEPT ![r] =
          CheckSettings(l, apiKey, defaultStartAddress, defaultEndAddress)]
    /\ UNCHANGED <<tz, scheduleEntries, processedFiles, errorLogs, apiUsage, nextId,
                   nImports, imported, hdr>>

\* the duplicate file check
DuplicateFileCheck(r) ==
    LET l == req[r]
        existingFileProcess == getProcessedFileHash(processedFiles, l.userId, l.body.fileHash)
    IN
    /\ l.pc = "gate"
    /\ req' = [req EXCEPT ![r] =
          IF Truthy(l.body.fileHash) /\ existingFileProcess # {}
          THEN Returned(l, 409,
                   [message |-> "This file has already been processed",
                    recordCount |-> (CHOOSE f \in existingFileProcess : TRUE).recordCount])
          ELSE [l EXCEPT !.pc = "filter"]]
    /\ UNCHANGED <<tz, scheduleEntries, processedFiles, errorLogs, apiUsage, nextId,
                   nImports, imported, hdr>>

\* the dates that have an entry are left out; the other rows are grouped by day
FilterAndGroup(l, existingSchedule, z) ==
    LET hm == l.body.headerMapping
        dateRanges == DateRanges(l.body.data, hm, z, <<>>)
        existingDates == ExistingDates(existingSchedule)
        filteredDateRanges == FilteredDateRanges(dateRanges, existingDates)
        newDataCount == CountRows(filteredDateRanges)
        entriesByDate == EntriesByDate(Flatten(filteredDateRanges), hm, z, <<>>)
    IN
    IF Len(filteredDateRanges) = 0
    THEN Returned(l, 409,
             [message |-> "All dates in this file have already been processed",
              skippedCount |-> Len(l.body.data)])
    ELSE EnterDay([l EXCEPT !.newDataCount = newDataCount,
                            !.newDates = Len(filteredDateRanges),
                            !.entriesByDate = entriesByDate,
                            !.results = <<>>,
                            !.previousHotelAddress = NullStr], 1)

\* the entries of the user are read and the file's dates filtered
FilterExisting(r) ==
    LET l == req[r] IN
    /\ l.pc = "filter"
    /\ req' = [req EXCEPT ![r] =
          FilterAndGroup(l, getScheduleEntries(scheduleEntries, l.userId), tz)]
    /\ UNCHANGED <<tz, scheduleEntries, processedFiles, errorLogs, apiUsage, nextId,
                   nImports, imported, hdr>>

\* a variant in which a failed call is thrown past the day loop
RouteResultThrows(l, to, o) ==
    LET call == [date |-> DateString(l), from |-> l.currentLocation, to |-> to,
                 outcome |-> o]
        called == [l EXCEPT !.calls = Append(@, call)]
    IN
    IF o = "OK"
    THEN [called EXCEPT !.totalDayDistance =
                            @ + MetersToMiles(LegMeters(l.currentLocation, to))]
    ELSE Returned(called, 500, [message |-> "Failed to process schedule"])

\* calculateRoute(from, to, apiKey, userId) ending in outcome o, awaited by l
RouteResult(l, to, o) ==
    LET call == [date |-> DateString(l), from |-> l.currentLocation, to |-> to,
                 outcome |-> o]
        called == [l EXCEPT !.calls = Append(@, call)]
    IN
    CASE o = "OK" ->
           [called EXCEPT !.totalDayDistance =
                              @ + MetersToMiles(LegMeters(l.currentLocation, to))]
      [] o = "NOT_OK" ->
           [called EXCEPT !.pc = "catch", !.error =
               "Failed to calculate route: Error: Google Directions API error: NOT_OK"]
      [] OTHER ->
           [called EXCEPT !.pc = "catch", !.error =
               "Failed to calculate route: TypeError: fetch failed"]

\* usage is tracked once the provider has answered
UsageAfter(usage, userId, o) ==
    IF o = "FETCH_FAILED" THEN usage ELSE trackApiCall(usage, userId)

\* the leg to the next location
RouteToLocation(r) ==
    LET l == req[r]
        to == Locations(l)[l.locIdx].address
    IN
    /\ l.pc = "leg"
    /\ \E o \in Outcomes(l.currentLocation, to) :
         LET after == RouteResult(l, to, o) IN
         /\ req' = [req EXCEPT ![r] =
               IF o = "OK"
               THEN Seek([after EXCEPT !.currentLocation = to], l.locIdx + 1)
               ELSE after]
         /\ apiUsage' = UsageAfter(apiUsage, l.userId, o)
    /\ UNCHANGED <<tz, scheduleEntries, processedFiles, errorLogs, nextId,
                   nImports, imported, hdr>>

\* the leg back to the end address
RouteToEnd(r) ==
    LET l == req[r] IN
    /\ l.pc = "return"
    /\ \E o \in Outcomes(l.currentLocation, l.dayEndAddress) :
         LET after == RouteResult(l, l.dayEndAddress, o) IN
         /\ req' = [req EXCEPT ![r] =
               IF o = "OK"
               THEN [after EXCEPT !.pc = "lookup",
                         !.calculatedAmount = after.totalDayDistance * Rate(l)]
               ELSE after]
         /\ apiUsage' = UsageAfter(apiUsage, l.userId, o)
    /\ UNCHANGED <<tz, scheduleEntries, processedFiles, errorLogs, nextId,
                   nImports, imported, hdr>>

\* new Date(dateString)
DayDate(l) == LocalMidnight(DateString(l), tz)

\* existingEntries.find(...): the first entry of the user on the day's ISO date
FindExisting(entries, userId, date) ==
    LET existingEntries == getScheduleEntries(entries, userId)
        hits == {i \in 1..Len(existingEntries) :
                    ISODateStr(existingEntries[i].date) = ISODateStr(date)}
    IN IF hits = {} THEN NoEntry
       ELSE existingEntries[CHOOSE i \in hits : \A j \in hits : i <= j]

\* the check whether an entry for the date exists
LookupExisting(r) ==
    LET l == req[r] IN
    /\ l.pc = "lookup"
    /\ req' = [req EXCEPT ![r] =
          [l EXCEPT !.pc = "upsert",
                    !.existingEntry = FindExisting(scheduleEntries, l.userId, DayDate(l))]]
    /\ UNCHANGED <<tz, scheduleEntries, processedFiles, errorLogs, apiUsage, nextId,
                   nImports, imported, hdr>>

\* a variant in which the day's rows replace the rows of the entry
MergeUpdatesReplaceRows(l) ==
    LET e == l.existingEntry IN
    [calculatedDistance |->
         (IF e.calculatedDistance = NullNum THEN 0 ELSE e.calculatedDistance)
             + l.totalDayDistance,
     calculatedAmount |->
         (IF e.calculatedAmount = NullNum THEN 0 ELSE e.calculatedAmount)
             + l.calculatedAmount,
     notes |-> e.notes \o <<"|">> \o RouteNotes(l),
     isHotelStay |-> Flag(e.isHotelStay = "true" \/ l.hasHotelStay),
     processingStatus |-> "calculated",
     originalData |-> DayEntries(l)]

\* the updates of a merge into the entry found
MergeUpdates(l) ==
    LET e == l.existingEntry IN
    [calculatedDistance |->
         (IF e.calculatedDistance = NullNum THEN 0 ELSE e.calculatedDistance)
             + l.totalDayDistance,
     calculatedAmount |->
         (IF e.calculatedAmount = NullNum THEN 0 ELSE e.calculatedAmount)
             + l.calculatedAmount,
     notes |-> e.notes \o <<"|">> \o RouteNotes(l),
     isHotelStay |-> Flag(e.isHotelStay = "true" \/ l.hasHotelStay),
     processingStatus |-> "calculated",
     originalData |-> e.originalData \o DayEntries(l)]

\* the entry created for a day that has none
DayEntry(l, date) ==
    [NoEntry EXCEPT
        !.userId = l.userId,
        !.date = date,
        !.startAddress = l.dayStartAddress,
        !.endAddress = l.dayEndAddress,
        !.notes = <<"Daily route:">> \o RouteNotes(l),
        !.calculatedDistance = l.totalDayDistance,
        !.calculatedAmount = l.calculatedAmount,
        !.isHotelStay = Flag(l.hasHotelStay),
        !.processingStatus = "calculated",
        !.originalData = DayEntries(l)]

\* a variant that carries nothing over
CarryOverNone(l) == NullStr

\* the carry-over to the next day
CarryOver(l) == IF l.hasHotelStay THEN l.hotelAddress ELSE NullStr

\* the day's result is merged into the entry found, or a new entry is created
UpsertDay(r) ==
    LET l == req[r]
        merge == l.existingEntry # NoEntry
        entry == IF merge
                 THEN UpdatedEntry(scheduleEntries, l.existingEntry.id, MergeUpdates(l))
                 ELSE NewScheduleEntry(nextId + 1, DayEntry(l, DayDate(l)))
    IN
    /\ l.pc = "upsert"
    /\ scheduleEntries' =
          IF merge
          THEN updateScheduleEntry(scheduleEntries, l.existingEntry.id, MergeUpdates(l))
          ELSE createScheduleEntry(scheduleEntries, nextId + 1, DayEntry(l, DayDate(l)))
    /\ nextId' = IF merge THEN nextId ELSE nextId + 1
    /\ req' = [req EXCEPT ![r] =
          NextDay([l EXCEPT !.results = Append(@, entry),
                            !.previousHotelAddress = CarryOver(l),
                            !.writes = @ + 1])]
    /\ UNCHANGED <<tz, processedFiles, errorLogs, apiUsage, nImports, imported, hdr>>

\* a variant whose error entry starts at the default start address
ErrorEntryDefaultStart(l, date) ==
    [NoEntry EXCEPT
        !.userId = l.userId,
        !.date = date,
        !.startAddress = l.defaultStartAddress,
        !.endAddress = l.defaultEndAddress,
        !.notes = <<"Error processing daily route for", ToString(DateString(l))>>,
        !.processingStatus = "error",
        !.errorMessage = l.error,
        !.originalData = DayEntries(l)]

\* the entry created for a day that failed
ErrorEntry(l, date) ==
    [NoEntry EXCEPT
        !.userId = l.userId,
        !.date = date,
        !.startAddress = OrElse(l.previousHotelAddress, l.defaultStartAddress),
        !.endAddress = l.defaultEndAddress,
        !.notes = <<"Error processing daily route for", ToString(DateString(l))>>,
        !.processingStatus = "error",
        !.errorMessage = l.error,
        !.originalData = DayEntries(l)]

\* catch: the error entry of the day
CatchDay(r) ==
    LET l == req[r]
        errorEntry == NewScheduleEntry(nextId + 1, ErrorEntry(l, DayDate(l)))
    IN
    /\ l.pc = "catch"
    /\ scheduleEntries' =
          createScheduleEntry(scheduleEntries, nextId + 1, ErrorEntry(l, DayDate(l)))
    /\ nextId' = nextId + 1
    /\ req' = [req EXCEPT ![r] =
          [l EXCEPT !.pc = "errlog", !.results = Append(@, errorEntry),
                    !.writes = @ + 1]]
    /\ UNCHANGED <<tz, processedFiles, errorLogs, apiUsage, nImports, imported, hdr>>

\* catch: the error log of the day
LogDayError(r) ==
    LET l == req[r] IN
    /\ l.pc = "errlog"
    /\ errorLogs' = createErrorLog(errorLogs, nextId + 1,
          [userId |-> l.userId, errorType |-> "daily_route_calculation",
           errorMessage |-> l.error,
           context |-> [date |-> DateString(l), entriesCount |-> Len(DayEntries(l))]])
    /\ nextId' = nextId + 1
    /\ req' = [req EXCEPT ![r] = NextDay(l)]
    /\ UNCHANGED <<tz, scheduleEntries, processedFiles, apiUsage, nImports, imported, hdr>>

\* the record that the file has been processed
RecordProcessedFile(r) ==
    LET l == req[r] IN
    /\ l.pc = "record"
    /\ processedFiles' = createProcessedFile(processedFiles, nextId + 1,
          [userId |-> l.userId, fileHash |-> l.body.fileHash,
           fileName |-> l.body.fileName, recordCount |-> l.newDataCount])
    /\ nextId' = nextId + 1
    /\ req' = [req EXCEPT ![r] = [l EXCEPT !.pc = "save", !.saveIdx = 1]]
    /\ UNCHANGED <<tz, scheduleEntries, errorLogs, apiUsage, nImports, imported, hdr>>

\* the summary returned
SuccessSummary(l) ==
    [message |-> "Schedule data processed successfully",
     entriesProcessed |-> Len(l.results),
     newDatesProcessed |-> l.newDates,
     apiCallsMade |-> CountRows(l.entriesByDate),
     skippedDuplicates |-> Len(l.body.data) - l.newDataCount]

\* the final loop: every entry of the results is created
SaveResult(r) ==
    LET l == req[r]
        entry == l.results[l.saveIdx]
        saved == [l EXCEPT !.saveIdx = @ + 1, !.writes = @ + 1]
    IN
    /\ l.pc = "save"
    /\ scheduleEntries' = IF entry # NoEntry
                          THEN createScheduleEntry(scheduleEntries, nextId + 1, entry)
                          ELSE scheduleEntries
    /\ nextId' = IF entry # NoEntry THEN nextId + 1 ELSE nextId
    /\ req' = [req EXCEPT ![r] =
          IF l.saveIdx = Len(l.results)
          THEN Returned(saved, 200, SuccessSummary(l))
          ELSE saved]
    /\ UNCHANGED <<tz, processedFiles, errorLogs, apiUsage, nImports, imported, hdr>>

----------------------------------------------------------------------------
(* Header inference on the parsed file (POST /api/schedule/import, client) *)

MaxCols == 3

\* column names; three of them fall under two rules
HeaderPool == {"Date", "Trip Date", "Start Address", "From", "End Address",
               "Destination", "Address", "Stop Address", "Notes", "Comments",
               "Departure Date", "Destination Address", "Address Notes"}

\* the columns of a trip sheet
TripSheetColumns == <<"Trip Date", "Starting Location", "Destination", "Comments">>

\* the column names of a first row: no name twice
HeaderLists ==
    {s \in UNION {[1..n -> HeaderPool] : n \in 0..MaxCols} :
        \A i, j \in 1..Len(s) : i # j => s[i] # s[j]}

IdleHdr == [pc |-> "idle", headers |-> <<>>, server |-> NoMapping, client |-> NoMapping]

\* the server infers the mapping of an uploaded file
ServerDetect ==
    /\ hdr.pc = "parsed"
    /\ hdr' = [hdr EXCEPT !.pc = "server", !.server = detectHeaders(hdr.headers)]
    /\ UNCHANGED <<tz, scheduleEntries, processedFiles, errorLogs, apiUsage, nextId,
                   req, nImports, imported>>

\* the client infers the mapping of a file it parsed
ClientDetect ==
    /\ hdr.pc = "server"
    /\ hdr' = [hdr EXCEPT !.pc = "both", !.client = clientDetectHeaders(hdr.headers)]
    /\ UNCHANGED <<tz, scheduleEntries, processedFiles, errorLogs, apiUsage, nextId,
                   req, nImports, imported>>

----------------------------------------------------------------------------
(* Specifications *)

InitStorage ==
    /\ tz \in TimeZones
    /\ scheduleEntries = <<>>
    /\ processedFiles = {}
    /\ errorLogs = <<>>
    /\ apiUsage = [u \in Users |-> 0]
    /\ nextId = 0
    /\ req = [r \in Slots |-> IdleReq]
    /\ nImports = 0
    /\ imported = {}

Init == InitStorage /\ hdr = IdleHdr

Step(r) ==
    \/ GetSettings(r)
    \/ DuplicateFileCheck(r)
    \/ FilterExisting(r)
    \/ RouteToLocation(r)
    \/ RouteToEnd(r)
    \/ LookupExisting(r)
    \/ UpsertDay(r)
    \/ CatchDay(r)
    \/ LogDayError(r)
    \/ RecordProcessedFile(r)
    \/ SaveResult(r)

\* one request at a time
Arrive == \E userId \in Users, body \in Requests : Begin(1, userId, body)

Next == Arrive \/ Step(1)

Spec == Init /\ [][Next]_vars

\* requests of a configured user: three days with a hotel stop, serial dates,
\* rows without a date
LiveUsers == {"u2"}
LiveRequests == {b \in Requests : b.fileHash \in {"h1", "h3", NullStr}}

ArriveLive == \E userId \in LiveUsers, body \in LiveRequests : Begin(1, userId, body)

NextLive == ArriveLive \/ Step(1)

\* every await of the handler settles (the provider answers or fails, the
\* storage resolves) and the event loop then runs the continuation
SpecLive == Init /\ [][NextLive]_vars /\ WF_vars(Step(1))

\* requests of one user that overlap
ConcUsers == {"u1"}
ConcRequests == {b \in Requests : b.fileHash \in {"h2", "h3"}}

ArriveAny(r) == \E userId \in ConcUsers, body \in ConcRequests : Begin(r, userId, body)

NextConc == \E r \in Slots : ArriveAny(r) \/ Step(r)

SpecConc == Init /\ [][NextConc]_vars

\* header inference alone
InitHdr ==
    /\ InitStorage
    /\ tz = 0
    /\ \E headers \in HeaderLists \cup {TripSheetColumns} :
          hdr = [IdleHdr EXCEPT !.pc = "parsed", !.headers = headers]

NextHdr == ServerDetect \/ ClientDetect

SpecHdr == InitHdr /\ [][NextHdr]_vars

----------------------------------------------------------------------------
(* What the claims speak of *)

\* the calendar date of an entry, on the server's calendar
CalendarDay(e) == ToDateString(e.date, tz)

\* the entries of a user on a calendar date
EntriesOn(entries, userId, day) ==
    SelectSeq(entries, LAMBDA e : e.userId = userId /\ ToDateString(e.date, tz) = day)

\* the calls of a request for a day, and the miles they returned
CallsOf(l, day) == SelectSeq(l.calls, LAMBDA c : c.date = day)

RECURSIVE CallMiles(_)
CallMiles(cs) ==
    IF cs = <<>> THEN 0
    ELSE (IF Head(cs).outcome = "OK"
          THEN MetersToMiles(LegMeters(Head(cs).from, Head(cs).to)) ELSE 0)
         + CallMiles(Tail(cs))

Failed(cs) == \E i \in 1..Len(cs) : cs[i].outcome # "OK"

Range(s) == {s[i] : i \in 1..Len(s)}

\* a request run alone, on a user without entries, every call answered:
\* one day up to its lookup
RECURSIVE DriveDay(_)
DriveDay(l) ==
    CASE l.pc = "leg" ->
           LET to == Locations(l)[l.locIdx].address IN
           DriveDay(Seek([RouteResult(l, to, "OK") EXCEPT !.currentLocation = to],
                         l.locIdx + 1))
      [] l.pc = "return" ->
           [RouteResult(l, l.dayEndAddress, "OK") EXCEPT !.pc = "lookup"]
      [] OTHER -> l

\* ... and the days one after the other: the day and its distance
RECURSIVE AloneDays(_, _)
AloneDays(l, acc) ==
    LET d == DriveDay(l)
        done == Append(acc, [day |-> DateString(d), distance |-> d.totalDayDistance,
                             rows |-> DayEntries(d)])
    IN IF d.dayIdx < Len(d.entriesByDate)
       THEN AloneDays(EnterDay([d EXCEPT !.previousHotelAddress = CarryOver(d)],
                               d.dayIdx + 1), done)
       ELSE done

Alone(userId, body, z) ==
    LET s == getUserSettings(userId)
        l == FilterAndGroup(
                 [IdleReq EXCEPT !.userId = userId, !.body = body,
                     !.defaultStartAddress = s.defaultStartAddress,
                     !.defaultEndAddress =
                         OrElse(s.defaultEndAddress, s.defaultStartAddress)],
                 <<>>, z)
    IN IF l.pc = "done" THEN <<>> ELSE AloneDays(l, <<>>)

----------------------------------------------------------------------------
(* C1..C3 *)

\* C1: the store holds at most one entry per user and calendar date
C1_OneEntryPerUserAndDate ==
    \A i, j \in 1..Len(scheduleEntries) :
        (i # j /\ scheduleEntries[i].userId = scheduleEntries[j].userId)
            => CalendarDay(scheduleEntries[i]) # CalendarDay(scheduleEntries[j])

\* C2: a request with the file hash of an import of the same user that has
\* returned its summary is answered with a conflict, issues no provider call
\* and writes no entry
C2_SecondImportConflicts ==
    \A r \in Slots :
        LET l == req[r] IN
        (/\ l.pc # "idle"
         /\ Truthy(l.body.fileHash)
         /\ \E s \in imported : /\ s.userId = l.userId
                                /\ s.body.fileHash = l.body.fileHash
                                /\ s.status = 200)
        => /\ l.calls = <<>>
           /\ l.writes = 0
           /\ l.pc = "done" => l.status = 409

\* C3: after two imports of files with different hashes that both have rows of
\* a date, the date has one entry, with the two imports' distances summed and
\* the rows of both
C3_AdditiveMerge ==
    \A r \in Slots : \A s \in imported :
        LET l == req[r] IN
        (/\ l.pc = "done"
         /\ s.userId = l.userId
         /\ s.status = 200 /\ ~s.failed /\ ~Failed(l.calls)
         /\ Truthy(s.body.fileHash) /\ Truthy(l.body.fileHash)
         /\ s.body.fileHash # l.body.fileHash
         /\ Cardinality(imported) = 1)
        => \A a \in Range(Alone(s.userId, s.body, tz)) :
           \A b \in Range(Alone(l.userId, l.body, tz)) :
              a.day = b.day =>
                 LET es == EntriesOn(scheduleEntries, l.userId, a.day) IN
                 /\ Len(es) = 1
                 /\ es[1].calculatedDistance = a.distance + b.distance
                 /\ Range(a.rows) \cup Range(b.rows) \subseteq Range(es[1].originalData)

----------------------------------------------------------------------------
(* C4..C6 *)

\* the handler is inside the loop body of a day
InDay(l) == l.pc \in {"leg", "return", "lookup", "upsert", "catch", "errlog"}

PastFilter(l) == l.entriesByDate # <<>>

DayKey(l, i) == l.entriesByDate[i].key
DayRows(l, i) == l.entriesByDate[i].rows

HotelStart(l, i) ==
    LET locs == Locations([l EXCEPT !.dayIdx = i - 1])
        h == FirstHotel(locs)
    IN IF h # 0 THEN locs[h].address ELSE l.defaultStartAddress

\* ... and the start the code gives it: an empty hotel address carries nothing
CarriedStart(l, i) == OrElse(HotelStart(l, i), l.defaultStartAddress)

\* the starts of the days of a request are start(l, i)
StartsAre(l, start(_, _)) ==
    /\ (InDay(l) /\ l.dayIdx > 1
            /\ l.results[l.dayIdx - 1].processingStatus = "calculated")
       => /\ l.dayStartAddress = start(l, l.dayIdx)
          /\ LET cs == CallsOf(l, DateString(l)) IN
             cs # <<>> => cs[1].from = start(l, l.dayIdx)
    /\ \A i \in 2..Len(l.results) :
          (/\ l.results[i - 1].processingStatus = "calculated"
           /\ l.results[i].originalData = DayRows(l, i))
          => l.results[i].startAddress = start(l, i)

\* C5 as claimed: after a calculated day with a hotel stop the next day starts at
\* the hotel stop's address, after one without at the default start
C5_HotelCarryOver ==
    \A r \in Slots : PastFilter(req[r]) => StartsAre(req[r], HotelStart)

\* C5 as amended: ... at the hotel stop's address if it has one
C5_HotelCarryOverNonEmpty ==
    \A r \in Slots : PastFilter(req[r]) => StartsAre(req[r], CarriedStart)

\* C5 happens: the second day starts at the hotel of the first, and a call left it
C5_Witness ==
    \E r \in Slots :
        LET l == req[r] IN
        /\ l.pc = "upsert" /\ l.dayIdx = 2
        /\ l.results[1].processingStatus = "calculated"
        /\ l.dayStartAddress = "Inn"
        /\ l.defaultStartAddress = "Home"
        /\ CallsOf(l, DateString(l)) # <<>>

Unconfigured(userId) ==
    \/ ~Truthy(getUserSettings(userId).googleApiKey)
    \/ ~Truthy(getUserSettings(userId).defaultStartAddress)

\* C6: a request of a user without API key or default start address returns 400
\* at once: no call, no entry, no error log, no file record
C6_ConfigurationFailsFast ==
    /\ \A r \in Slots :
          LET l == req[r] IN
          (l.pc # "idle" /\ Unconfigured(l.userId))
          => /\ l.pc \in {"settings", "done"}
             /\ l.pc = "done" => l.status = 400
             /\ l.calls = <<>>
             /\ l.writes = 0
             /\ scheduleEntries = l.before
    /\ \A u \in Users :
          Unconfigured(u)
          => /\ getScheduleEntries(scheduleEntries, u) = <<>>
             /\ \A i \in 1..Len(errorLogs) : errorLogs[i].userId # u
             /\ \A f \in processedFiles : f.userId # u
             /\ apiUsage[u] = 0

\* C6 happens: a user with a key and no start address was answered 400 while
\* another user's entries are in the store
C6_Witness ==
    \E r \in Slots :
        LET l == req[r] IN
        /\ l.pc = "done" /\ l.status = 400
        /\ Truthy(getUserSettings(l.userId).googleApiKey)
        /\ l.body.data # <<>>
        /\ scheduleEntries # <<>>

----------------------------------------------------------------------------
(* C7..C10 *)

\* the calendar dates on which the user had an entry when the request arrived
DaysBefore(l) ==
    {CalendarDay(e) : e \in Range(getScheduleEntries(l.before, l.userId))}

\* C7: for a date that had an entry of the user when the request arrived, the
\* request issues no call, leaves the entry as it was and adds no entry
C7_ExistingDatesUntouched ==
    \A r \in Slots :
        LET l == req[r] IN
        l.pc # "idle" =>
          /\ \A c \in Range(l.calls) : c.date \notin DaysBefore(l)
          /\ \A i \in 1..Len(l.before) :
                l.before[i].userId = l.userId => scheduleEntries[i] = l.before[i]
          /\ \A i \in (Len(l.before) + 1)..Len(scheduleEntries) :
                scheduleEntries[i].userId = l.userId
                    => CalendarDay(scheduleEntries[i]) \notin DaysBefore(l)

\* the dates for which a request found no entry and created one
CreatedDays(l) ==
    {CalendarDay(e) : e \in {x \in Range(l.results) :
                                /\ x.processingStatus = "calculated"
                                /\ "|" \notin Range(x.notes)}}

\* C8: no two requests of a user both find no entry for a date and both create one
C8_ImportsSerialized ==
    \A r1, r2 \in Slots :
        (r1 # r2 /\ req[r1].pc # "idle" /\ req[r1].userId = req[r2].userId)
            => CreatedDays(req[r1]) \cap CreatedDays(req[r2]) = {}

\* the day in hand has one stop, the default start address, and nothing is
\* carried over from a hotel
HomeOnlyDay(l) ==
    /\ InDay(l)
    /\ Len(DayEntries(l)) = 1
    /\ Locations(l)[1].address = l.defaultStartAddress
    /\ ~Truthy(l.previousHotelAddress)

\* such a day has no call and no distance, and its entry has distance 0
ZeroLegs(l) ==
    /\ l.pc \in {"lookup", "upsert"}
    /\ CallsOf(l, DateString(l)) = <<>>
    /\ l.totalDayDistance = 0
    /\ l.pc = "upsert" => DayEntry(l, DayDate(l)).calculatedDistance = 0

\* C9 as claimed: a day whose one stop is the default start address
C9_ZeroLegDay ==
    \A r \in Slots : HomeOnlyDay(req[r]) => ZeroLegs(req[r])

\* C9 as amended: ... for a user whose end address is the default start address
C9_ZeroLegDayEndAtStart ==
    \A r \in Slots :
        (HomeOnlyDay(req[r]) /\ req[r].defaultEndAddress = req[r].defaultStartAddress)
            => ZeroLegs(req[r])

\* C9 happens: the third day's one stop is home, after a day that returned home
C9_Witness ==
    \E r \in Slots :
        LET l == req[r] IN
        /\ HomeOnlyDay(l) /\ l.pc = "upsert"
        /\ l.defaultEndAddress = l.defaultStartAddress
        /\ l.existingEntry = NoEntry
        /\ l.dayIdx = 3 /\ l.calls # <<>>

\* the rule a column name falls under, in the order the rules are tried
HeaderClass(header) ==
    LET l == ToLowerCase(Chars[header]) IN
    CASE IsDateHeader(l) -> "date"
      [] IsStartHeader(l) -> "start"
      [] IsEndHeader(l) -> "end"
      [] IsGenericAddressHeader(l) -> "generic"
      [] IsNotesHeader(l) -> "notes"
      [] OTHER -> "none"

ClientHeaderClass(header) ==
    LET l == ToLowerCase(Chars[header]) IN
    CASE IsDateHeader(l) -> "date"
      [] IsClientStartHeader(l) -> "start"
      [] IsClientEndHeader(l) -> "end"
      [] IsNotesHeader(l) -> "notes"
      [] OTHER -> "none"

\* the first and the last column under one of the rules, null if there is none
FirstOf(headers, class(_), rules) ==
    LET hits == {i \in 1..Len(headers) : class(headers[i]) \in rules} IN
    IF hits = {} THEN NullStr ELSE headers[CHOOSE i \in hits : \A j \in hits : i <= j]

LastOf(headers, class(_), rules) ==
    LET hits == {i \in 1..Len(headers) : class(headers[i]) \in rules} IN
    IF hits = {} THEN NullStr ELSE headers[CHOOSE i \in hits : \A j \in hits : i >= j]

\* C10 as claimed: each field is the first column that matches its rule
C10_FirstColumnWins ==
    /\ hdr.pc \in {"server", "both"} =>
          hdr.server = [date |-> FirstOf(hdr.headers, HeaderClass, {"date"}),
                        startAddress |->
                            FirstOf(hdr.headers, HeaderClass, {"start", "generic"}),
                        endAddress |-> FirstOf(hdr.headers, HeaderClass, {"end"}),
                        notes |-> FirstOf(hdr.headers, HeaderClass, {"notes"})]
    /\ hdr.pc = "both" =>
          hdr.client = [date |-> FirstOf(hdr.headers, ClientHeaderClass, {"date"}),
                        startAddress |-> FirstOf(hdr.headers, ClientHeaderClass, {"start"}),
                        endAddress |-> FirstOf(hdr.headers, ClientHeaderClass, {"end"}),
                        notes |-> FirstOf(hdr.headers, ClientHeaderClass, {"notes"})]

\* a start address is set when column i is reached: an earlier column fell
\* under the start rule or under the generic address rule
StartSetBefore(headers, i) ==
    \E j \in 1..(i - 1) : HeaderClass(headers[j]) \in {"start", "generic"}

\* the field column i is taken for: the first rule it satisfies, where the
\* generic address rule is satisfied only while no start address is set
FieldOf(headers, i) ==
    LET c == HeaderClass(headers[i]) IN
    CASE c = "date" -> "date"
      [] c = "start" -> "startAddress"
      [] c = "end" -> "endAddress"
      [] c = "generic" ->
            IF ~StartSetBefore(headers, i) THEN "startAddress"
            ELSE IF IsNotesHeader(ToLowerCase(Chars[headers[i]])) THEN "notes"
            ELSE "none"
      [] c = "notes" -> "notes"
      [] OTHER -> "none"

\* the last column taken for a field, null if there is none
LastTaken(headers, f) ==
    LET hits == {i \in 1..Len(headers) : FieldOf(headers, i) = f} IN
    IF hits = {} THEN NullStr ELSE headers[CHOOSE i \in hits : \A j \in hits : i >= j]

\* C10 as amended: each field is the last column taken for it; a column under
\* the generic address rule is taken for the start address only while none is
\* set, so it never replaces one
C10_LastColumnWins ==
    /\ hdr.pc \in {"server", "both"} =>
          hdr.server = [date |-> LastTaken(hdr.headers, "date"),
                        startAddress |-> LastTaken(hdr.headers, "startAddress"),
                        endAddress |-> LastTaken(hdr.headers, "endAddress"),
                        notes |-> LastTaken(hdr.headers, "notes")]
    /\ hdr.pc = "both" =>
          hdr.client = [date |-> LastOf(hdr.headers, ClientHeaderClass, {"date"}),
                        startAddress |-> LastOf(hdr.headers, ClientHeaderClass, {"start"}),
                        endAddress |-> LastOf(hdr.headers, ClientHeaderClass, {"end"}),
                        notes |-> LastOf(hdr.headers, ClientHeaderClass, {"notes"})]

\* C10 happens: two date columns and two generic address columns were mapped
C10_Witness ==
    /\ hdr.pc = "both"
    /\ Len(hdr.headers) = 3
    /\ HeaderClass(hdr.headers[1]) = "date"
    /\ HeaderClass(hdr.headers[2]) = "date"
    /\ hdr.server.date = hdr.headers[2]
    /\ hdr.client.date = hdr.headers[2]

----------------------------------------------------------------------------
(* C11 *)

Fields == {"date", "startAddress", "endAddress", "notes"}

\* C11: every column is taken by the first rule it satisfies, in the order
\* date, start address, end address, generic address, notes, and for one field
\* at most; the trip sheet's columns are mapped one to each field and no
\* columns give the empty mapping
C11_PriorityClassification ==
    hdr.pc \in {"server", "both"} =>
        /\ \A f \in Fields :
              Truthy(hdr.server[f]) =>
                 \E i \in 1..Len(hdr.headers) :
                    /\ hdr.headers[i] = hdr.server[f]
                    /\ FieldOf(hdr.headers, i) = f
        /\ \A i \in 1..Len(hdr.headers) :
              FieldOf(hdr.headers, i) # "none" =>
                 Truthy(hdr.server[FieldOf(hdr.headers, i)])
        /\ \A f, g \in Fields :
              (f # g /\ Truthy(hdr.server[f])) => hdr.server[f] # hdr.server[g]
        /\ hdr.headers = TripSheetColumns =>
              hdr.server = [date |-> "Trip Date", startAddress |-> "Starting Location",
                            endAddress |-> "Destination", notes |-> "Comments"]
        /\ hdr.headers = <<>> => hdr.server = NoMapping

\* C11 happens: three columns that each fall under two rules were mapped
C11_Witness ==
    /\ hdr.pc = "server"
    /\ hdr.headers = <<"Departure Date", "Destination Address", "Address Notes">>
    /\ hdr.server = [date |-> "Departure Date", startAddress |-> "Address Notes",
                     endAddress |-> "Destination Address", notes |-> NullStr]

----------------------------------------------------------------------------
(* C12 *)

\* the calendar day a date cell denotes: a spreadsheet serial n is day n - 1 of
\* January 1900, a string is the day it names
DenotedDay(cell) ==
    IF cell.k = "num" THEN Day19000101 + (cell.v - 1) - 1 ELSE cell.v

\* C12: every row that is grouped lies in the bucket of the calendar day its
\* date cell denotes, be the cell a number or a string, so rows of one day share
\* a bucket
C12_SerialDateBucket ==
    \A r \in Slots :
        LET l == req[r] IN
        PastFilter(l) =>
            /\ \A i \in 1..Len(l.entriesByDate) :
                  \A row \in Range(DayRows(l, i)) :
                      DayKey(l, i) = DenotedDay(row[l.body.headerMapping.date])
            /\ \A i, j \in 1..Len(l.entriesByDate) :
                  i # j => DayKey(l, i) # DayKey(l, j)

\* ... for numbers and for strings in a local-time format
C12_LocalFormats ==
    \A r \in Slots :
        LET l == req[r] IN
        PastFilter(l) =>
            \A i \in 1..Len(l.entriesByDate) :
                \A row \in Range(DayRows(l, i)) :
                    row[l.body.headerMapping.date].k \in {"num", "mdy"}
                        => DayKey(l, i) = DenotedDay(row[l.body.headerMapping.date])

----------------------------------------------------------------------------
(* C13, C14 *)

\* the legs between the stops of a day that starts at cur: one for each stop
\* with an address other than the place the path has reached
RECURSIVE StopLegs(_, _)
StopLegs(cur, locs) ==
    IF locs = <<>> THEN <<>>
    ELSE LET a == Head(locs).address IN
         IF Truthy(a) /\ a # cur
         THEN <<[from |-> cur, to |-> a]>> \o StopLegs(a, Tail(locs))
         ELSE StopLegs(cur, Tail(locs))

\* the place the path has reached after the stops
RECURSIVE FinalLocation(_, _)
FinalLocation(cur, locs) ==
    IF locs = <<>> THEN cur
    ELSE FinalLocation(OrElse(Head(locs).address, cur), Tail(locs))

Pairs(cs) == [i \in 1..Len(cs) |-> [from |-> cs[i].from, to |-> cs[i].to]]

\* an entry the request created for a day whose calls were all answered
CreatedEntry(e) == e.processingStatus = "calculated" /\ "|" \notin Range(e.notes)

\* C13: no call has its origin as destination or an empty destination, and the
\* distance of a day is the sum of the miles of the calls issued for it
C13_LegsBetweenDistinctStops ==
    \A r \in Slots :
        LET l == req[r] IN
        /\ \A c \in Range(l.calls) : c.from # c.to /\ Truthy(c.to) /\ Truthy(c.from)
        /\ (PastFilter(l) /\ l.pc \in {"lookup", "upsert"}) =>
              /\ ~Failed(CallsOf(l, DateString(l)))
              /\ l.totalDayDistance = CallMiles(CallsOf(l, DateString(l)))
        /\ PastFilter(l) =>
              \A i \in 1..Len(l.results) :
                  CreatedEntry(l.results[i]) =>
                      l.results[i].calculatedDistance = CallMiles(CallsOf(l, DayKey(l, i)))

\* C13 happens: a day of two stops, the second without address, with a leg out
\* and a leg back
C13_Witness ==
    \E r \in Slots :
        LET l == req[r] IN
        /\ l.pc = "upsert"
        /\ Len(DayEntries(l)) = 2
        /\ Locations(l)[2].address = ""
        /\ Len(CallsOf(l, DateString(l))) = 2
        /\ l.totalDayDistance > 0

\* what the claim says of day i and its entry e: on a hotel day the flag, the
\* first hotel stop as end and no leg but those between the stops; on another
\* day the default end and a last leg to it from where the stops end
EndOfDay(l, i, e) ==
    LET locs == Locations([l EXCEPT !.dayIdx = i])
        hotels == {k \in 1..Len(locs) : detectHotelStay(locs[k].notes)}
        cs == Pairs(CallsOf(l, DayKey(l, i)))
        last == FinalLocation(e.startAddress, locs)
    IN IF hotels # {}
       THEN /\ e.isHotelStay = "true"
            /\ \E h \in hotels : /\ \A k \in hotels : h <= k
                                 /\ e.endAddress = locs[h].address
            /\ cs = StopLegs(e.startAddress, locs)
       ELSE /\ e.endAddress = l.defaultEndAddress
            /\ l.defaultEndAddress =
                   OrElse(getUserSettings(l.userId).defaultEndAddress,
                          getUserSettings(l.userId).defaultStartAddress)
            /\ cs = StopLegs(e.startAddress, locs)
                      \o (IF last # l.defaultEndAddress
                          THEN <<[from |-> last, to |-> l.defaultEndAddress]>>
                          ELSE <<>>)

----------------------------------------------------------------------------
(* C15 *)

\* C15: the day in hand is a hotel day exactly if the notes of one of its stops
\* contain one of the nine keywords, in any case of the letters
C15_NineKeywords ==
    \A r \in Slots :
        LET l == req[r] IN
        (PastFilter(l) /\ InDay(l)) =>
            (l.hasHotelStay <=>
                \E i \in 1..Len(Locations(l)) :
                    clientDetectHotelStay(Locations(l)[i].notes))

----------------------------------------------------------------------------
(* C17 *)

\* each call leaves from the destination of the call before it, which was
\* answered
Linked(cs) ==
    \A k \in 2..Len(cs) : cs[k].from = cs[k - 1].to /\ cs[k - 1].outcome = "OK"

\* the calls form a chain that leaves from start
Chained(cs, start) == (cs # <<>> => cs[1].from = start) /\ Linked(cs)

----------------------------------------------------------------------------
(* C16 *)

\* C16: a column that merely contains "address" or "location" becomes the start
\* address only if no earlier column was taken for the start or the end address
C16_GenericOnlyWhenNoneAssigned ==
    hdr.pc \in {"server", "both"} =>
        \A i \in 1..Len(hdr.headers) :
            (/\ HeaderClass(hdr.headers[i]) = "generic"
             /\ hdr.server.startAddress = hdr.headers[i])
            => \A j \in 1..(i - 1) :
                  FieldOf(hdr.headers, j) \notin {"startAddress", "endAddress"}

----------------------------------------------------------------------------
(* C18..C20 *)

IsPrefix(s, t) == Len(s) <= Len(t) /\ SubSeq(t, 1, Len(s)) = s

\* C18: no step removes an entry, takes rows from its originalData or puts
\* anything but more rows behind them, or turns its hotel flag from true to
\* false; a step that changes an entry is a merge, which sets the status
\* 'calculated' and the notes to the old notes, ' | ' and the notes of the day
C18_AppendOnlyMerge ==
    [][\A i \in 1..Len(scheduleEntries) :
          /\ i <= Len(scheduleEntries')
          /\ scheduleEntries'[i].id = scheduleEntries[i].id
          /\ IsPrefix(scheduleEntries[i].originalData, scheduleEntries'[i].originalData)
          /\ scheduleEntries[i].isHotelStay = "true"
                => scheduleEntries'[i].isHotelStay = "true"
          /\ scheduleEntries'[i] # scheduleEntries[i] =>
                /\ scheduleEntries'[i].processingStatus = "calculated"
                /\ \E r \in Slots :
                      /\ req[r].pc = "upsert"
                      /\ scheduleEntries'[i].notes =
                            scheduleEntries[i].notes \o <<"|">> \o RouteNotes(req[r])
                      /\ scheduleEntries'[i].originalData =
                            scheduleEntries[i].originalData \o DayEntries(req[r])]_vars

\* C18 happens: a hotel day was merged into an entry that had a row
C18_Witness ==
    \E i \in 1..Len(scheduleEntries) :
        /\ "|" \in Range(scheduleEntries[i].notes)
        /\ Len(scheduleEntries[i].originalData) = 2
        /\ scheduleEntries[i].isHotelStay = "true"
        /\ scheduleEntries[i].processingStatus = "calculated"

\* C19: an entry has an error message exactly if its status is 'error'
C19_ErrorMessageIffError ==
    \A e \in Range(scheduleEntries) :
        Truthy(e.errorMessage) <=> e.processingStatus = "error"

\* the message of the failure of a call
FailureMessage(c) ==
    IF c.outcome = "NOT_OK"
    THEN "Failed to calculate route: Error: Google Directions API error: NOT_OK"
    ELSE "Failed to calculate route: TypeError: fetch failed"

\* the days of a request that failed
FailedDays(l) ==
    {i \in 1..Len(l.results) : l.results[i].processingStatus = "error"}

\* the entries and the error logs written since the first request arrived
ErrorEntriesOn(userId, date) ==
    SelectSeq(scheduleEntries,
              LAMBDA e : e.userId = userId /\ e.date = date /\ e.processingStatus = "error")

ErrorLogsOn(userId, day) ==
    SelectSeq(errorLogs, LAMBDA g : g.userId = userId /\ g.context.date = day)

\* every failed day of a first import has an error entry with the message of
\* the failure and the rows of the day, and one error log with the date and the
\* number of rows; the logs are as many as the error entries of the results
ErrorDayRecorded(l) ==
    /\ \A i \in FailedDays(l) :
          LET cs == CallsOf(l, DayKey(l, i))
              e == l.results[i]
          IN /\ Failed(cs)
             /\ e.errorMessage = FailureMessage(cs[Len(cs)])
             /\ e.originalData = DayRows(l, i)
             /\ e \in Range(scheduleEntries)
             /\ (i < l.dayIdx \/ l.pc \in {"record", "save", "done"}) =>
                   LET logs == ErrorLogsOn(l.userId, DayKey(l, i)) IN
                   /\ Len(logs) = 1
                   /\ logs[1].errorMessage = e.errorMessage
                   /\ logs[1].context.entriesCount = Len(DayRows(l, i))
    /\ l.pc \in {"record", "save", "done"} =>
          Len(errorLogs) = Cardinality(FailedDays(l))

\* C20: ... and exactly one error entry in the store
C20_OneErrorEntryAndLog ==
    \A r \in Slots :
        LET l == req[r] IN
        (PastFilter(l) /\ nImports = 1) =>
            /\ ErrorDayRecorded(l)
            /\ \A i \in FailedDays(l) :
                  Len(ErrorEntriesOn(l.userId, l.results[i].date)) = 1

\* ... without the count of the entries in the store
C20_ErrorDayRecorded ==
    \A r \in Slots : (PastFilter(req[r]) /\ nImports = 1) => ErrorDayRecorded(req[r])

----------------------------------------------------------------------------
(* C21 *)

\* the rows of a request whose date the filter does not skip: the date is
\* valid and the user had no entry on it when the request arrived
NonSkippedRows(l) ==
    {i \in 1..Len(l.body.data) :
        LET date == NewDate(l.body.data[i][l.body.headerMapping.date], tz) IN
        /\ date # NaNDate
        /\ ISODateStr(date) \notin
              ExistingDates(getScheduleEntries(l.before, l.userId))}

NonSkippedDates(l) ==
    {ISODateStr(NewDate(l.body.data[i][l.body.headerMapping.date], tz)) :
        i \in NonSkippedRows(l)}

\* C21: when an import with file hash and file name has returned its summary,
\* there is one file record of the user and the hash, its recordCount is the
\* number of rows of the dates not skipped, skippedDuplicates and recordCount
\* add up to the rows of the file and newDatesProcessed is the number of dates
\* not skipped
C21_FileRecordCounts ==
    \A r \in Slots :
        LET l == req[r]
            recs == getProcessedFileHash(processedFiles, l.userId, l.body.fileHash)
        IN (/\ l.pc = "done" /\ l.status = 200
            /\ Truthy(l.body.fileHash) /\ Truthy(l.body.fileName))
           => /\ Cardinality(recs) = 1
              /\ \A f \in recs :
                    /\ f.recordCount = Cardinality(NonSkippedRows(l))
                    /\ f.fileName = l.body.fileName
                    /\ l.response.skippedDuplicates + f.recordCount = Len(l.body.data)
              /\ l.response.newDatesProcessed = Cardinality(NonSkippedDates(l))

\* C21 happens: an import of four rows, two of them of a date that was skipped
C21_Witness ==
    \E r \in Slots :
        LET l == req[r] IN
        /\ l.pc = "done" /\ l.status = 200
        /\ l.body.fileHash = "h1"
        /\ l.response.skippedDuplicates = 2
        /\ l.response.newDatesProcessed = 2
        /\ \E f \in processedFiles : f.fileHash = "h1" /\ f.recordCount = 2

----------------------------------------------------------------------------
(* C22 *)

\* the request has returned from the day loop's side of the handler
Finished(l) == l.pc = "done" /\ PastFilter(l)

\* every day of the loop has one result, calculated or error, on its own date
\* and ending with its own rows
OneOutcomePerDay(l) ==
    /\ Len(l.results) = Len(l.entriesByDate)
    /\ \A i, j \in 1..Len(l.entriesByDate) : i # j => DayKey(l, i) # DayKey(l, j)
    /\ \A i \in 1..Len(l.results) :
          /\ l.results[i].date = LocalMidnight(DayKey(l, i), tz)
          /\ l.results[i].processingStatus \in {"calculated", "error"}
          /\ LET rows == l.results[i].originalData
                 n == Len(rows) - Len(DayRows(l, i))
             IN n >= 0 /\ SubSeq(rows, n + 1, Len(rows)) = DayRows(l, i)

\* C22: an import that has passed the configuration and the duplicate-file
\* checks returns; when its day loop is over every day of the loop has exactly
\* one result, calculated or error, and the response is the summary, never the
\* failure of a day
C22_ImportTerminates ==
    /\ (req[1].pc = "filter") ~> (req[1].pc = "done")
    /\ [](\A r \in Slots :
            LET l == req[r] IN
            /\ (l.pc \in {"record", "save"} \/ Finished(l)) => OneOutcomePerDay(l)
            /\ Finished(l) => l.status = 200
            /\ (PastFilter(l) /\ ~Finished(l)) =>
                  /\ Len(l.results) \in {l.dayIdx - 1, l.dayIdx}
                  /\ InDay(l) => Len(l.results) =
                                   IF l.pc = "errlog" THEN l.dayIdx ELSE l.dayIdx - 1)

\* C22 happens: an import of three days, one of them failed, has returned
C22_Witness ==
    \E r \in Slots :
        LET l == req[r] IN
        /\ Finished(l) /\ l.status = 200
        /\ Len(l.results) = 3
        /\ FailedDays(l) # {} /\ FailedDays(l) # 1..3

----------------------------------------------------------------------------
(* C23 *)

\* the date cell of the row is no date
Unparseable(row) == row.Date.k = "bad"

\* the stops a request can route to: the addresses of its rows with a date,
\* and the addresses of the user's settings
DatedStops(l) ==
    {l.body.data[i].Address :
        i \in {j \in 1..Len(l.body.data) : ~Unparseable(l.body.data[j])}}
    \cup {l.defaultStartAddress, l.defaultEndAddress}

\* C23: a row whose date cell is no date is left out before the grouping: it is
\* in no day of the loop, no call goes to its address, it is in the rows of no
\* result and of no stored entry, and the import still returns its summary
C23_UnparseableRowsRejected ==
    /\ \A r \in Slots :
          LET l == req[r] IN
          PastFilter(l) =>
            /\ \A i \in 1..Len(l.entriesByDate) :
                  \A row \in Range(DayRows(l, i)) : ~Unparseable(row)
            /\ \A c \in Range(l.calls) : c.to \in DatedStops(l)
            /\ \A e \in Range(l.results) :
                  \A row \in Range(e.originalData) : ~Unparseable(row)
            /\ l.pc = "done" => l.status = 200
    /\ \A e \in Range(scheduleEntries) :
          \A row \in Range(e.originalData) : ~Unparseable(row)

\* C23 happens: an import with a row without a date has returned, with calls
\* made and entries calculated for its other rows
C23_Witness ==
    \E r \in Slots :
        LET l == req[r] IN
        /\ Finished(l)
        /\ \E row \in Range(l.body.data) : Unparseable(row)
        /\ l.calls # <<>>
        /\ \E e \in Range(l.results) : e.processingStatus = "calculated"
        /\ l.response.skippedDuplicates >= 1

----------------------------------------------------------------------------
(* C24 *)

\* the address the calls of day i of a request set out from
SetOutFrom(l, i) == CallsOf(l, DayKey(l, i))[1].from

\* the result of day i is an entry of its own, not one merged into another
OwnEntry(l, i) ==
    l.results[i].processingStatus = "error" \/ CreatedEntry(l.results[i])

\* C24: the error entry of a failed day has as startAddress the address the
\* day set out from, and the day after it starts from that address again: it
\* is the start of the day in progress, the origin of its first call and the
\* startAddress of its entry
C24_FailedDayKeepsCarryOver ==
    \A r \in Slots :
        LET l == req[r] IN
        PastFilter(l) =>
          \A i \in FailedDays(l) :
            LET from == SetOutFrom(l, i) IN
            /\ l.results[i].startAddress = from
            /\ (InDay(l) /\ l.dayIdx = i + 1) => l.dayStartAddress = from
            /\ (i < Len(l.entriesByDate) /\ CallsOf(l, DayKey(l, i + 1)) # <<>>)
                  => SetOutFrom(l, i + 1) = from
            /\ (i < Len(l.results) /\ OwnEntry(l, i + 1))
                  => l.results[i + 1].startAddress = from

\* C24 happens: after a hotel day the second day has failed, and the third
\* sets out from the hotel as the second did
C24_Witness ==
    \E r \in Slots :
        LET l == req[r] IN
        /\ PastFilter(l) /\ Len(l.results) = 3
        /\ l.results[1].processingStatus = "calculated"
        /\ l.results[2].processingStatus = "error"
        /\ l.results[2].startAddress = "Inn"
        /\ l.results[3].startAddress = "Inn"
        /\ l.defaultStartAddress = "Home"
        /\ SetOutFrom(l, 3) = "Inn"

----------------------------------------------------------------------------
(* C25 *)

\* C25: for a date on which the user had an error entry when the request
\* arrived, the request issues no call and the entry stays as it was, an error
C25_ErrorDatesNotRecomputed ==
    \A r \in Slots :
        LET l == req[r] IN
        l.pc # "idle" =>
          \A i \in 1..Len(l.before) :
            (l.before[i].userId = l.userId /\ l.before[i].processingStatus = "error")
            => /\ \A c \in Range(l.calls) : c.date # CalendarDay(l.before[i])
               /\ scheduleEntries[i].processingStatus = "error"
               /\ scheduleEntries[i] = l.before[i]

----------------------------------------------------------------------------
(* C26 *)

\* the date the filter tests for row i of a request
FilterDate(l, i) == ISODateStr(NewDate(l.body.data[i][l.body.headerMapping.date], tz))

\* C26: every row that passes the filter is in the day of the date the filter
\* tested for it, the days of the loop are the dates the filter let pass,
\* entriesProcessed equals newDatesProcessed, and the date of the entry the
\* loop looks up or creates is a date the filter let pass
C26_FilterAndGroupingAgree ==
    \A r \in Slots :
        LET l == req[r] IN
        PastFilter(l) =>
          /\ \A i \in NonSkippedRows(l) :
                \E d \in 1..Len(l.entriesByDate) :
                    /\ DayKey(l, d) = FilterDate(l, i)
                    /\ l.body.data[i] \in Range(DayRows(l, d))
          /\ {DayKey(l, d) : d \in 1..Len(l.entriesByDate)} = NonSkippedDates(l)
          /\ InDay(l) => ISODateStr(DayDate(l)) \in NonSkippedDates(l)
          /\ (l.pc = "done" /\ l.status = 200) =>
                l.response.entriesProcessed = l.response.newDatesProcessed

----------------------------------------------------------------------------
(* C27 *)

\* no import of the user of the request has returned yet
OnlyOthersBefore(l) == \A s \in imported : s.userId # l.userId

\* the rows of the request that have a date, and their dates
DatedRows(l) == {i \in 1..Len(l.body.data) : ~Unparseable(l.body.data[i])}
DatedDates(l) == {FilterDate(l, i) : i \in DatedRows(l)}

\* what a request has read and made is of its own user, and after imports of
\* other users only it is not rejected, skips no date and merges into no entry
OwnDataOnly(l) ==
    /\ l.existingEntry # NoEntry => l.existingEntry.userId = l.userId
    /\ \A e \in Range(l.results) : e.userId = l.userId
    /\ OnlyOthersBefore(l) =>
          /\ l.status # 409
          /\ PastFilter(l) =>
                /\ l.newDataCount = Cardinality(DatedRows(l))
                /\ l.newDates = Cardinality(DatedDates(l))
                /\ l.existingEntry = NoEntry
                /\ \A i \in 1..Len(l.results) : OwnEntry(l, i)

\* a step of a request changes and adds only entries, error logs, file records
\* and usage counts of the user of the request
WritesOwnDataOnly(l) ==
    /\ \A i \in 1..Len(scheduleEntries') :
          (i > Len(scheduleEntries) \/ scheduleEntries'[i] # scheduleEntries[i])
              => scheduleEntries'[i].userId = l.userId
    /\ Len(scheduleEntries') >= Len(scheduleEntries)
    /\ \A i \in 1..Len(errorLogs') :
          (i > Len(errorLogs) \/ errorLogs'[i] # errorLogs[i])
              => errorLogs'[i].userId = l.userId
    /\ \A f \in (processedFiles' \ processedFiles) \cup (processedFiles \ processedFiles') :
          f.userId = l.userId
    /\ \A u \in Users : apiUsage'[u] # apiUsage[u] => u = l.userId

\* C27: an import reads, creates and updates only data of its own user; the
\* entries and file records of other users neither reject it nor make it skip a
\* date, so after imports of other users it runs as on an empty store
C27_ImportsIsolatedPerUser ==
    /\ [](\A r \in Slots : req[r].pc # "idle" => OwnDataOnly(req[r]))
    /\ [][WritesOwnDataOnly(req[1])]_vars

\* C27 happens: a user has imported a file that another user imported before,
\* and both have their file record and their entries
C27_Witness ==
    \E r \in Slots : \E s \in imported :
        LET l == req[r] IN
        /\ l.pc = "done" /\ l.status = 200
        /\ s.userId # l.userId /\ s.status = 200
        /\ s.body = l.body /\ Truthy(l.body.fileName)
        /\ getProcessedFileHash(processedFiles, s.userId, l.body.fileHash) # {}
        /\ getProcessedFileHash(processedFiles, l.userId, l.body.fileHash) # {}
        /\ getScheduleEntries(scheduleEntries, s.userId) # <<>>
        /\ getScheduleEntries(scheduleEntries, l.userId) # <<>>

----------------------------------------------------------------------------
(* C28 *)

\* the request is past the configuration check and the duplicate-file check
PastGate(l) == l.pc \notin {"idle", "settings", "gate", "filter"} /\ l.status # 400

\* no import of the user with the file hash of the request has returned
NewFile(l) ==
    \A s \in imported :
        ~(s.userId = l.userId /\ s.body.fileHash = l.body.fileHash /\ s.status = 200)

\* the answer of the filter when it lets nothing pass
ConflictOfDates(l) ==
    /\ l.pc = "done" /\ l.status = 409
    /\ l.response.message = "All dates in this file have already been processed"
    /\ l.response.skippedCount = Len(l.body.data)
    /\ l.calls = <<>>
    /\ l.writes = 0
    /\ scheduleEntries = l.before
    /\ getProcessedFileHash(processedFiles, l.userId, l.body.fileHash) = {}

\* C28: when the user had an entry on the calendar day of every dated row of a
\* new file, the request is answered with the conflict of dates, skippedCount
\* being the number of rows; it issues no call, creates and changes no entry and
\* stores no file record
C28_AllDatesPresentConflict ==
    \A r \in Slots :
        LET l == req[r] IN
        (/\ PastGate(l) /\ NewFile(l)
         /\ \A i \in DatedRows(l) :
               DenotedDay(l.body.data[i][l.body.headerMapping.date]) \in DaysBefore(l))
        => ConflictOfDates(l)

\* ... when the filter finds an entry on the date it tests for every dated row
C28_NoDateAdmittedConflict ==
    \A r \in Slots :
        LET l == req[r] IN
        (PastGate(l) /\ NewFile(l) /\ NonSkippedRows(l) = {}) => ConflictOfDates(l)

\* that case happens, for a file with hash and name
C28_NoDateAdmitted ==
    \E r \in Slots :
        LET l == req[r] IN
        /\ PastGate(l) /\ NewFile(l) /\ NonSkippedRows(l) = {}
        /\ Truthy(l.body.fileHash) /\ Truthy(l.body.fileName)

----------------------------------------------------------------------------
(* C29 *)

\* the file records of the user and the file hash of a request
FileRecords(l) == getProcessedFileHash(processedFiles, l.userId, l.body.fileHash)

\* day i of the request has an entry in the store
DayPersisted(l, i) ==
    \E e \in Range(scheduleEntries) :
        e.userId = l.userId /\ CalendarDay(e) = DayKey(l, i)

\* C29: the file record of an import of a new file exists only when the day
\* loop is over, every day of the loop then having its result and an entry in
\* the store; up to the end of the loop, where a stopped import would leave the
\* store as it is, there is no file record and the results of the days handled
\* are in the store
C29_RecordAfterDayLoop ==
    \A r \in Slots :
        LET l == req[r] IN
        (l.pc # "idle" /\ Truthy(l.body.fileHash) /\ NewFile(l)) =>
          /\ FileRecords(l) # {} =>
                /\ l.pc \in {"save", "done"}
                /\ Len(l.results) = Len(l.entriesByDate)
                /\ \A i \in 1..Len(l.entriesByDate) : DayPersisted(l, i)
          /\ (InDay(l) \/ l.pc \in {"filter", "record"}) =>
                /\ FileRecords(l) = {}
                /\ \A i \in 1..Len(l.results) :
                      /\ l.results[i] \in Range(scheduleEntries)
                      /\ DayPersisted(l, i)

\* C29 happens: the file record of an import of three days, one of them
\* failed, has been written
C29_Witness ==
    \E r \in Slots :
        LET l == req[r] IN
        /\ Truthy(l.body.fileHash) /\ NewFile(l)
        /\ l.pc = "save" /\ FileRecords(l) # {}
        /\ Len(l.entriesByDate) = 3
        /\ FailedDays(l) # {}

\* an import at its third day, two days stored and no file record
C29_MidLoop ==
    \E r \in Slots :
        LET l == req[r] IN
        /\ Truthy(l.body.fileHash) /\ Truthy(l.body.fileName) /\ NewFile(l)
        /\ InDay(l) /\ l.dayIdx = 3 /\ Len(l.results) = 2
        /\ FileRecords(l) = {}

----------------------------------------------------------------------------
(* C30 *)

\* the entries a request has added to the store for the date of its day i
AddedOn(l, i) ==
    SelectSeq(SubSeq(scheduleEntries, Len(l.before) + 1, Len(scheduleEntries)),
              LAMBDA e : e.userId = l.userId /\ e.date = l.results[i].date)

\* an error entry of day i, without distance and amount
BareErrorEntry(l, i, e) ==
    /\ e.processingStatus = "error"
    /\ e.calculatedDistance = NullNum
    /\ e.calculatedAmount = NullNum
    /\ e.errorMessage = l.results[i].errorMessage
    /\ e.originalData = DayRows(l, i)

\* the entries the user had on the day i of the request are as they were
ExistingKept(l, i) ==
    \A j \in 1..Len(l.before) :
        (l.before[j].userId = l.userId /\ CalendarDay(l.before[j]) = DayKey(l, i))
            => scheduleEntries[j] = l.before[j]

\* C30: of a day that failed the store holds one entry added by the import,
\* the error entry, without calculatedDistance and calculatedAmount, and the
\* entries the user had on that date are unchanged
C30_FailedDayErrorEntryOnly ==
    \A r \in Slots :
        LET l == req[r] IN
        PastFilter(l) =>
          \A i \in FailedDays(l) :
            /\ Len(AddedOn(l, i)) = 1
            /\ BareErrorEntry(l, i, AddedOn(l, i)[1])
            /\ ExistingKept(l, i)

\* ... every entry added for the day is an error entry without distance and
\* amount, however many there are
C30_NoLegPersisted ==
    \A r \in Slots :
        LET l == req[r] IN
        PastFilter(l) =>
          \A i \in FailedDays(l) :
            /\ AddedOn(l, i) # <<>>
            /\ \A e \in Range(AddedOn(l, i)) : BareErrorEntry(l, i, e)
            /\ ExistingKept(l, i)

\* that case happens: a day failed at its second call, after miles of the
\* first leg had been added up
C30_PartWay ==
    \E r \in Slots :
        LET l == req[r] IN
        /\ l.pc = "errlog"
        /\ l.totalDayDistance > 0
        /\ Len(CallsOf(l, DateString(l))) >= 2
        /\ l.results[l.dayIdx].processingStatus = "error"

====
